---------------------------- MODULE Spec2Model ----------------------------
(***************************************************************************)
(* Model of the Solana block QA tracker: runTracker's scheduler loop, one  *)
(* compareBlocks cycle (fetchLatestBlock, fetchBlockWithRPCFetcher, the    *)
(* checksum comparison, writeBlocksToJSONFiles, sendSlackNotification) and *)
(* the pure helpers sanitizeBlock / calculateSanitizedChecksum.            *)
(*                                                                         *)
(* A pointer that may be nil is a sequence of length 0 or 1.  The digest   *)
(* of calculateChecksum is taken to be collision free on the bounded block *)
(* domain: it is the tagged byte string itself.                            *)
(***************************************************************************)
EXTENDS Integers, Sequences, FiniteSets

\* ----------------------------------------------------------------- bounds
MaxSlot == 2
MaxLogs == 1
MaxTicks == 2
MaxCalls == 2

\* ------------------------------------------------------------ data domain
Nil == <<>>
Some(x) == <<x>>

Slots == 1..MaxSlot
ParentSlots == {0, 1}
LogLines == {"log"}

RECURSIVE SeqsUpTo(_, _)
SeqsUpTo(S, n) ==
    IF n = 0 THEN {<<>>}
    ELSE LET shorter == SeqsUpTo(S, n - 1)
         IN shorter \cup {Append(s, x) : s \in {t \in shorter : Len(t) = n - 1}, x \in S}

\* pbsol.TransactionStatusMeta, reduced to its log_messages field.
Metas == {[LogMessages |-> l] : l \in SeqsUpTo(LogLines, MaxLogs)}

\* pbsol.ConfirmedTransaction: Meta is a pointer, nil or set.
Txs == {[Meta |-> Nil]} \cup {[Meta |-> Some(m)] : m \in Metas}

\* pbsol.Block as the tracker reads it, with one transaction.
Blocks ==
    {[Slot |-> s, ParentSlot |-> p, Blockhash |-> "hash", Transactions |-> <<x>>] :
        s \in Slots, p \in ParentSlots, x \in Txs}

\* ---------------------------------------------------------- pure helpers
\* The log lines of every transaction, nil Meta counted as no lines.
LogsOf(block) ==
    [i \in DOMAIN block.Transactions |->
        IF block.Transactions[i].Meta = Nil THEN <<>>
        ELSE block.Transactions[i].Meta[1].LogMessages]

HasLogs(block) == \E i \in DOMAIN block.Transactions : LogsOf(block)[i] # <<>>

\* The block with transaction i's LogMessages set to nil when Meta is set.
sanitizeBlockKeepingLogs(block) == block
sanitizeBlock(block) ==
    [block EXCEPT !.Transactions =
        [i \in DOMAIN block.Transactions |->
            IF block.Transactions[i].Meta # Nil
            THEN [Meta |-> Some([block.Transactions[i].Meta[1]
                                    EXCEPT !.LogMessages = <<>>])]
            ELSE block.Transactions[i]]]

\* proto.Marshal of a TransactionStatusMeta: field 6 once per log line.
MarshalMeta(m) == [i \in DOMAIN m.LogMessages |-> <<6, m.LogMessages[i]>>]

\* proto.Marshal of a ConfirmedTransaction: field 2 (meta) only when set;
\* a set but empty message is still emitted, with an empty body.
MarshalTx(tx) ==
    IF tx.Meta = Nil THEN <<>> ELSE << <<2, MarshalMeta(tx.Meta[1])>> >>

\* proto.Marshal of a Block: proto3 omits zero scalars and empty strings.
ProtoMarshalWithoutParentSlot(block) ==
    (IF block.Blockhash # "" THEN << <<2, block.Blockhash>> >> ELSE <<>>)
    \o [i \in DOMAIN block.Transactions |-> <<4, MarshalTx(block.Transactions[i])>>]
    \o (IF block.Slot # 0 THEN << <<20, block.Slot>> >> ELSE <<>>)
ProtoMarshal(block) ==
    (IF block.Blockhash # "" THEN << <<2, block.Blockhash>> >> ELSE <<>>)
    \o (IF block.ParentSlot # 0 THEN << <<3, block.ParentSlot>> >> ELSE <<>>)
    \o [i \in DOMAIN block.Transactions |-> <<4, MarshalTx(block.Transactions[i])>>]
    \o (IF block.Slot # 0 THEN << <<20, block.Slot>> >> ELSE <<>>)

\* hex(sha256(data)), collision free on the model's domain.
calculateChecksum(data) == [sha256 |-> data]

\* The digest calculateSanitizedChecksum returns; the block it leaves behind
\* is sanitizeBlock(block), since it sanitizes through the pointer.
calculateChecksumBeforeSanitizing(block) == calculateChecksum(ProtoMarshal(block))
calculateSanitizedChecksum(block) == calculateChecksum(ProtoMarshal(sanitizeBlock(block)))

\* protojson with EmitUnpopulated false: unset and zero fields are left out.
JsonMeta(m) ==
    IF m.LogMessages # <<>> THEN << <<"logMessages", m.LogMessages>> >> ELSE <<>>

JsonTx(tx) == IF tx.Meta = Nil THEN <<>> ELSE << <<"meta", JsonMeta(tx.Meta[1])>> >>

ProtoJson(block) ==
    (IF block.Blockhash # "" THEN << <<"blockhash", block.Blockhash>> >> ELSE <<>>)
    \o (IF block.ParentSlot # 0 THEN << <<"parentSlot", block.ParentSlot>> >> ELSE <<>>)
    \o (IF block.Transactions # <<>>
        THEN << <<"transactions",
                  [i \in DOMAIN block.Transactions |-> JsonTx(block.Transactions[i])]>> >>
        ELSE <<>>)
    \o (IF block.Slot # 0 THEN << <<"slot", block.Slot>> >> ELSE <<>>)

\* fmt.Sprintf("firehose_block_%d.json", slot) and its RPC counterpart.
FirehoseFilename(slot) == [prefix |-> "firehose_block_", slot |-> slot, ext |-> ".json"]
RpcFetcherFilename(slot) == [prefix |-> "rpc_fetcher_block_", slot |-> slot, ext |-> ".json"]


\* ------------------------------------------------------------------ state
VARIABLES
    slackWebhookURL,    \* Tracker.slackWebhookURL, "" when not configured
    slackChannel,       \* Tracker.slackChannel, "" when the flag is given empty
    interval,           \* runTracker's interval, as time.ParseDuration gave it
    pc,                 \* runTracker: "setup" (before time.NewTicker), "start"
                        \* (before the first cycle), "cycle", "wait", "stopped"
                        \* (returned) or "panicked" (time.NewTicker panicked)
    kind,               \* which call of compareBlocks: "initial" or "periodic"
    ret,                \* runTracker's return value: Nil until it returns
    tickPending,        \* ticker.C (capacity 1) holds a tick
    sigPending,         \* sigChan (capacity 1) holds a signal
    cpc,                \* compareBlocks: "idle", "fetchA", "fetchB", "compare",
                        \* "write", "notify" or "done"
    firehoseBlock,      \* compareBlocks' firehoseBlock, Nil before it is set
    firehoseBlockSum,
    rpcFetcherBlock,
    rpcFetcherBlockSum,
    cycErr,             \* the error compareBlocks returns, Nil for nil
    files,              \* the working directory: the names of the files in it
    \* history of the run, read by the properties only
    active,             \* calls of compareBlocks that have not returned
    cyclesStarted,      \* cycles started, counted up to MaxTicks + 1
    ticksConsumed,      \* ticks received from ticker.C, counted up to MaxTicks
    sigConsumed,
    fetchedA,           \* Source A's block as decoded, before the checksum call
    fetchedB,
    rpcCalls,           \* slot arguments passed to rpcFetcher.Fetch this cycle
    skippedB,           \* rpcFetcher.Fetch reported skipped this cycle
    compared,           \* the checksums were compared this cycle
    writes,             \* os.WriteFile calls that succeeded this cycle: name, data
    posts,              \* slack.PostWebhook calls made this cycle
    logs,               \* log entries since the current (or last) cycle began
    \* repeated calls of calculateSanitizedChecksum, outside the tracker's run
    given,              \* record name -> the block as first handed in
    record,             \* record name -> the block as it is in memory now
    returned            \* record name -> what each call so far gave back

schedVars == <<pc, kind, ret, tickPending, sigPending,
               active, cyclesStarted, ticksConsumed, sigConsumed>>
cfgVars == <<slackWebhookURL, slackChannel, interval>>
cycleVars == <<cpc, firehoseBlock, firehoseBlockSum, rpcFetcherBlock,
               rpcFetcherBlockSum, cycErr, files, fetchedA, fetchedB, rpcCalls,
               skippedB, compared, writes, posts, logs>>
callVars == <<given, record, returned>>
trackerVars == <<cfgVars, schedVars, cycleVars>>
vars == <<trackerVars, callVars>>

Log(level, msg) == [level |-> level, msg |-> msg]

\* Durations time.ParseDuration accepts, in units of the ticker's period: it
\* accepts negative and zero durations as well as positive ones.
Intervals == {-1, 0, 1}

\* runTracker up to time.NewTicker: the Tracker holds the flags' values, the
\* signal channel is registered, nothing has run yet.
InitTracker ==
    /\ slackWebhookURL \in {"", "https://hooks.example/T"}
    /\ slackChannel \in {"", "solana"}
    /\ interval \in Intervals
    /\ pc = "setup"
    /\ kind = "initial"
    /\ ret = Nil
    /\ tickPending = FALSE
    /\ sigPending = FALSE
    /\ cpc = "idle"
    /\ firehoseBlock = Nil
    /\ firehoseBlockSum = Nil
    /\ rpcFetcherBlock = Nil
    /\ rpcFetcherBlockSum = Nil
    /\ cycErr = Nil
    /\ files = {}
    /\ active = 0
    /\ cyclesStarted = 0
    /\ ticksConsumed = 0
    /\ sigConsumed = FALSE
    /\ fetchedA = Nil
    /\ fetchedB = Nil
    /\ rpcCalls = <<>>
    /\ skippedB = FALSE
    /\ compared = FALSE
    /\ writes = <<>>
    /\ posts = <<>>
    /\ logs = <<>>

\* The tracker's run makes no calls other than those of its cycles.
Init ==
    /\ InitTracker
    /\ given = Nil
    /\ record = Nil
    /\ returned = Nil

\* ------------------------------------------------------------ environment
\* The ticker fires, any number of times.  A tick that finds ticker.C full is
\* dropped and changes nothing.
TickFire ==
    /\ pc \in {"start", "cycle", "wait"}
    /\ ~tickPending
    /\ tickPending' = TRUE
    /\ UNCHANGED <<cfgVars, callVars, cycleVars, pc, kind, ret, sigPending, active,
                   cyclesStarted, ticksConsumed, sigConsumed>>

\* SIGINT or SIGTERM is delivered to sigChan.
Signal ==
    /\ pc \notin {"stopped", "panicked"}
    /\ ~sigPending
    /\ sigPending' = TRUE
    /\ UNCHANGED <<cfgVars, callVars, cycleVars, pc, kind, ret, tickPending,
                   active, cyclesStarted, ticksConsumed, sigConsumed>>

\* -------------------------------------------------------------- scheduler
\* The history counters stop counting at their bound; the ticker does not stop.
CountUpTo(n, cap) == IF n < cap THEN n + 1 ELSE n

\* The entry of compareBlocks: a fresh frame, and its first log line.
EnterCycle(k) ==
    /\ pc' = "cycle"
    /\ kind' = k
    /\ cpc' = "fetchA"
    /\ active' = active + 1
    /\ cyclesStarted' = CountUpTo(cyclesStarted, MaxTicks + 1)
    /\ firehoseBlock' = Nil
    /\ firehoseBlockSum' = Nil
    /\ rpcFetcherBlock' = Nil
    /\ rpcFetcherBlockSum' = Nil
    /\ cycErr' = Nil
    /\ fetchedA' = Nil
    /\ fetchedB' = Nil
    /\ rpcCalls' = <<>>
    /\ skippedB' = FALSE
    /\ compared' = FALSE
    /\ writes' = <<>>
    /\ posts' = <<>>
    /\ logs' = << Log("info", IF k = "initial"
                              THEN "Running initial block comparison"
                              ELSE "Running periodic block comparison"),
                  Log("info", "Fetching latest block from StreamingFast Firehose") >>
    /\ UNCHANGED <<cfgVars, callVars, files, ret>>

\* time.NewTicker(interval): it panics on a non-positive interval, and the
\* process dies before any cycle has run.
NewTicker ==
    /\ pc = "setup"
    /\ pc' = IF interval <= 0 THEN "panicked" ELSE "start"
    /\ UNCHANGED <<cfgVars, callVars, cycleVars, kind, ret, tickPending, sigPending,
                   active, cyclesStarted, ticksConsumed, sigConsumed>>

\* The first comparison, run before the loop is entered.
RunInitialSkipped ==
    /\ pc = "start"
    /\ pc' = "wait"
    /\ UNCHANGED <<cfgVars, callVars, cycleVars, kind, ret, tickPending, sigPending, active,
                   cyclesStarted, ticksConsumed, sigConsumed>>
RunInitial ==
    /\ pc = "start"
    /\ EnterCycle("initial")
    /\ UNCHANGED <<tickPending, sigPending, ticksConsumed, sigConsumed>>

\* The goroutine of runTracker is blocked in select.
AtWaitPointOrInCycle == pc \in {"wait", "cycle"}
AtWaitPoint == pc = "wait"

\* case <-ticker.C
SelectTick ==
    /\ AtWaitPoint
    /\ tickPending
    /\ tickPending' = FALSE
    /\ ticksConsumed' = CountUpTo(ticksConsumed, MaxTicks)
    /\ EnterCycle("periodic")
    /\ UNCHANGED <<sigPending, sigConsumed>>

\* Where the signal case leaves runTracker: `return nil` leaves the loop.
StepAfterSignal == "stopped"

\* case sig := <-sigChan: the signal is logged, then return nil
SelectSignal ==
    /\ AtWaitPoint
    /\ sigPending
    /\ sigPending' = FALSE
    /\ sigConsumed' = TRUE
    /\ logs' = Append(logs, Log("info", "Received shutdown signal, stopping gracefully"))
    /\ pc' = StepAfterSignal
    /\ ret' = IF StepAfterSignal = "stopped" THEN Some("nil") ELSE ret
    /\ UNCHANGED <<cfgVars, callVars, kind, tickPending, active,
                   cyclesStarted, ticksConsumed,
                   cpc, firehoseBlock, firehoseBlockSum, rpcFetcherBlock,
                   rpcFetcherBlockSum, cycErr, files, fetchedA, fetchedB, rpcCalls,
                   skippedB, compared, writes, posts>>

\* What runTracker does with compareBlocks' result.
AfterCycleReturningErr(err) == IF err # Nil THEN "stopped" ELSE "wait"
AfterCycle(err) == "wait"

\* The log after compareBlocks has returned: its error, if any, is logged.
LogsAfterCycleSilent == logs
LogsAfterCycle ==
    IF cycErr # Nil
    THEN Append(logs, Log("error",
             IF kind = "initial"
             THEN "Error in initial block comparison"
             ELSE "Error in periodic block comparison"))
    ELSE logs

\* compareBlocks returns to runTracker, which logs an error and goes on.
CycleReturn ==
    /\ pc = "cycle"
    /\ cpc = "done"
    /\ pc' = AfterCycle(cycErr)
    /\ ret' = IF pc' = "stopped" THEN cycErr ELSE ret
    /\ cpc' = "idle"
    /\ active' = active - 1
    /\ logs' = LogsAfterCycle
    /\ firehoseBlock' = Nil
    /\ firehoseBlockSum' = Nil
    /\ rpcFetcherBlock' = Nil
    /\ rpcFetcherBlockSum' = Nil
    /\ fetchedA' = Nil
    /\ fetchedB' = Nil
    /\ writes' = <<>>
    /\ posts' = <<>>
    /\ UNCHANGED <<cfgVars, callVars, kind, tickPending, sigPending,
                   cyclesStarted, ticksConsumed, sigConsumed, cycErr, files,
                   rpcCalls, skippedB, compared>>

\* ---------------------------------------------------------- compareBlocks
\* fmt.Errorf("<context>: %w", err): the error compareBlocks returns names
\* the step that failed and carries the cause.
Wrap(context, cause) == [context |-> context, cause |-> cause]
FirehoseError(cause) == Wrap("error fetching block from Firehose", cause)
RpcFetcherError(cause) == Wrap("error fetching block with RPCFetcher", cause)
WriteError(cause) == Wrap("error writing blocks to JSON files", cause)

\* compareBlocks returns err; the frame is left for CycleReturn to pop.
Fail(err) ==
    /\ cycErr' = Some(err)
    /\ cpc' = "done"

FirehoseOutcomes ==
    {"ok", "failed to create stream", "failed to receive block",
     "received empty block", "failed to unmarshall Solana block",
     "failed to calculate sanitized checksum"}

\* Where compareBlocks goes when fetchLatestBlock returns an error: it returns.
StepAfterFirehoseErrorGoingOn == "fetchB"
StepAfterFirehoseError == "done"

\* fetchLatestBlock and the two log lines that follow it in compareBlocks.
\* The decoded block is sanitized in place by calculateSanitizedChecksum, so
\* the block handed back is the sanitized one.
FetchLatestBlock ==
    /\ pc = "cycle"
    /\ cpc = "fetchA"
    /\ \E outcome \in FirehoseOutcomes, b \in Blocks :
        IF outcome = "ok"
        THEN /\ fetchedA' = Some(b)
             /\ firehoseBlock' = Some(sanitizeBlock(b))
             /\ firehoseBlockSum' = Some(calculateSanitizedChecksum(b))
             /\ logs' = logs \o
                  << Log("info", "Firehose block sanitized checksum calculated"),
                     Log("info", "Successfully fetched Firehose block"),
                     Log("info", "Fetching block using RPCFetcher") >>
             /\ cpc' = "fetchB"
             /\ UNCHANGED cycErr
        ELSE /\ cycErr' = Some(FirehoseError(outcome))
             /\ cpc' = StepAfterFirehoseError
             /\ UNCHANGED <<fetchedA, firehoseBlock, firehoseBlockSum, logs>>
    /\ UNCHANGED <<cfgVars, callVars, schedVars, rpcFetcherBlock, rpcFetcherBlockSum, files,
                   fetchedB, rpcCalls, skippedB, compared, writes, posts>>

RpcOutcomes ==
    {"ok", "failed to fetch block with RPCFetcher", "block was skipped",
     "block payload is nil", "failed to unmarshal Solana block",
     "failed to calculate sanitized checksum"}

\* The checks of fetchBlockWithRPCFetcher that return an error: a transport
\* error, a skipped slot, a nil payload, a decode or a checksum error.
RpcFetchFailsUnlessSkipped(outcome) == outcome \notin {"ok", "block was skipped"}
RpcFetchFails(outcome) == outcome # "ok"

\* The slot compareBlocks passes to fetchBlockWithRPCFetcher.
RequestedSlotFromParent == firehoseBlock[1].ParentSlot
RequestedSlot == firehoseBlock[1].Slot

\* fetchBlockWithRPCFetcher(ctx, firehoseBlock.Slot) and the log line after it.
\* The fetcher may hand back a block whose own Slot field is any slot.
FetchBlockWithRPCFetcher ==
    /\ pc = "cycle"
    /\ cpc = "fetchB"
    /\ rpcCalls' = Append(rpcCalls, RequestedSlot)
    /\ \E outcome \in RpcOutcomes, b \in Blocks :
        /\ skippedB' = (outcome = "block was skipped")
        /\ IF ~RpcFetchFails(outcome)
           THEN /\ fetchedB' = Some(b)
                /\ rpcFetcherBlock' = Some(sanitizeBlock(b))
                /\ rpcFetcherBlockSum' = Some(calculateSanitizedChecksum(b))
                /\ logs' = logs \o
                     << Log("info", "RPCFetcher block sanitized checksum calculated"),
                        Log("info", "Successfully fetched block using RPCFetcher") >>
                /\ cpc' = "compare"
                /\ UNCHANGED cycErr
           ELSE /\ Fail(RpcFetcherError(outcome))
                /\ UNCHANGED <<fetchedB, rpcFetcherBlock, rpcFetcherBlockSum, logs>>
    /\ UNCHANGED <<cfgVars, callVars, schedVars, firehoseBlock, firehoseBlockSum, files,
                   fetchedA, compared, writes, posts>>

\* The test of line 341: do the two checksums differ?
ChecksumsDifferInverted == rpcFetcherBlockSum = firehoseBlockSum
ChecksumsDiffer == rpcFetcherBlockSum # firehoseBlockSum

\* What the mismatch branch does first: it writes the two files.
StepAfterMismatch == "write"

\* The comparison: on equal checksums compareBlocks returns nil.
CompareChecksums ==
    /\ pc = "cycle"
    /\ cpc = "compare"
    /\ compared' = TRUE
    /\ IF ChecksumsDiffer
       THEN /\ logs' = logs \o
                 << Log("info", "Comparing checksums"),
                    Log("warn", "Checksums are different - writing blocks to JSON files") >>
            /\ cpc' = StepAfterMismatch
       ELSE /\ logs' = logs \o
                 << Log("info", "Comparing checksums"),
                    Log("info", "Checksums are equal - skipping JSON file output") >>
            /\ cpc' = "done"
    /\ UNCHANGED <<cfgVars, callVars, schedVars, firehoseBlock, firehoseBlockSum,
                   rpcFetcherBlock, rpcFetcherBlockSum, cycErr, files, fetchedA,
                   fetchedB, rpcCalls, skippedB, writes, posts>>

\* os.WriteFile(name, data, 0644): the file exists afterwards, whether or not
\* it did before; its data is recorded in writes.
WriteFile(fs, name) == fs \cup {name}

\* os.WriteFile returning an error: it failed either in opening the file,
\* and the directory is as it was, or after creating or truncating it, and a
\* file of that name is there, empty or partial.
FailedWriteFile(fs, name, created) == IF created THEN fs \cup {name} ELSE fs

WriteOutcomes ==
    {"ok", "failed to marshal first block to JSON",
     "failed to marshal second block to JSON",
     "failed to write first block to file",
     "failed to write second block to file"}

\* The two file names compareBlocks builds (lines 344-345).
firehoseFilename == FirehoseFilename(firehoseBlock[1].Slot)
rpcFetcherFilename == RpcFetcherFilename(rpcFetcherBlock[1].Slot)

\* writeBlocksToJSONFiles(firehoseBlock, rpcFetcherBlock, ...): both blocks are
\* marshalled first, then the first file is written, then the second.  A
\* failing os.WriteFile may or may not leave a file behind.
WriteBlocksToJSONFiles ==
    /\ pc = "cycle"
    /\ cpc = "write"
    /\ \E outcome \in WriteOutcomes :
        LET json1 == ProtoJson(firehoseBlock[1])
            json2 == ProtoJson(rpcFetcherBlock[1])
            w1 == [name |-> firehoseFilename, data |-> json1]
            w2 == [name |-> rpcFetcherFilename, data |-> json2]
        IN  CASE outcome = "ok" ->
                   /\ files' = WriteFile(WriteFile(files, w1.name), w2.name)
                   /\ writes' = writes \o <<w1, w2>>
                   /\ logs' = Append(logs, Log("info", "Block JSON files written"))
                   /\ cpc' = "notify"
                   /\ UNCHANGED cycErr
              [] outcome = "failed to write first block to file" ->
                   /\ \E created \in BOOLEAN :
                         files' = FailedWriteFile(files, w1.name, created)
                   /\ Fail(WriteError(outcome))
                   /\ UNCHANGED <<writes, logs>>
              [] outcome = "failed to write second block to file" ->
                   /\ \E created \in BOOLEAN :
                         files' = FailedWriteFile(WriteFile(files, w1.name),
                                                  w2.name, created)
                   /\ writes' = Append(writes, w1)
                   /\ Fail(WriteError(outcome))
                   /\ UNCHANGED logs
              [] OTHER ->
                   /\ Fail(WriteError(outcome))
                   /\ UNCHANGED <<files, writes, logs>>
    /\ UNCHANGED <<cfgVars, callVars, schedVars, firehoseBlock, firehoseBlockSum,
                   rpcFetcherBlock, rpcFetcherBlockSum, fetchedA, fetchedB,
                   rpcCalls, skippedB, compared, posts>>

\* The webhook message sendSlackNotification builds; time.Now() is left out.
SlackPayload ==
    [Channel |-> IF slackChannel = "" THEN "#general" ELSE slackChannel,
     Username |-> "Solana Block QA Tracker",
     slot |-> firehoseBlock[1].Slot,
     firehoseSum |-> firehoseBlockSum[1],
     rpcSum |-> rpcFetcherBlockSum[1],
     firehoseFilePath |-> firehoseFilename,
     rpcFetcherFilePath |-> rpcFetcherFilename]

\* sendSlackNotification's early return: no webhook URL, nothing is posted.
WebhookConfiguredAlways == TRUE
WebhookConfigured == slackWebhookURL # ""

\* What compareBlocks returns after the notification: nil, delivered or not.
ErrAfterNotificationPropagated(delivered) ==
    IF delivered THEN Nil
    ELSE Some(Wrap("error sending Slack notification", "failed to send Slack notification"))
ErrAfterNotification(delivered) == Nil

\* sendSlackNotification and compareBlocks' handling of its error: a failed
\* post is logged and compareBlocks still returns nil.
SendSlackNotification ==
    /\ pc = "cycle"
    /\ cpc = "notify"
    /\ IF ~WebhookConfigured
       THEN /\ logs' = Append(logs,
                   Log("info", "SLACK_WEBHOOK_URL not set, skipping Slack notification"))
            /\ UNCHANGED <<posts, cycErr>>
       ELSE \E delivered \in BOOLEAN :
            /\ cycErr' = ErrAfterNotification(delivered)
            /\ posts' = Append(posts, [url |-> slackWebhookURL, payload |-> SlackPayload,
                                       delivered |-> delivered])
            /\ logs' = Append(logs,
                   IF delivered THEN Log("info", "Slack notification sent")
                   ELSE Log("error", "Failed to send Slack notification"))
    /\ cpc' = "done"
    /\ UNCHANGED <<cfgVars, callVars, schedVars, firehoseBlock, firehoseBlockSum,
                   rpcFetcherBlock, rpcFetcherBlockSum, files, fetchedA,
                   fetchedB, rpcCalls, skippedB, compared, writes>>

\* ------------------------------------------------------------ specification
Next ==
    \/ TickFire
    \/ Signal
    \/ NewTicker
    \/ RunInitial
    \/ SelectTick
    \/ SelectSignal
    \/ CycleReturn
    \/ FetchLatestBlock
    \/ FetchBlockWithRPCFetcher
    \/ CompareChecksums
    \/ WriteBlocksToJSONFiles
    \/ SendSlackNotification

Spec == Init /\ [][Next]_vars

\* The steps runTracker's goroutine takes itself; TickFire and Signal are the
\* runtime's and the operating system's.
Loop ==
    \/ NewTicker
    \/ RunInitial
    \/ SelectTick
    \/ SelectSignal
    \/ CycleReturn
    \/ FetchLatestBlock
    \/ FetchBlockWithRPCFetcher
    \/ CompareChecksums
    \/ WriteBlocksToJSONFiles
    \/ SendSlackNotification

\* Go's select takes one of its ready cases by uniform pseudo-random choice,
\* so a case that is ready at infinitely many selects is eventually taken.
SelectIsFair == SF_vars(SelectSignal) /\ SF_vars(SelectTick)

\* The goroutine is scheduled whenever it can take a step, so the loop goes
\* on and every cycle terminates, and its select is fair to both cases.
FairSpec == Spec /\ WF_vars(Loop) /\ SelectIsFair

\* ------------------------------------- calculateSanitizedChecksum on its own
\* Two blocks are held in memory and calculateSanitizedChecksum is called on
\* either of them, up to MaxCalls times each, in any order.
RecordNames == {"x", "y"}

InitCalls ==
    /\ InitTracker
    /\ slackWebhookURL = ""
    /\ slackChannel = "solana"
    /\ interval = 1
    /\ given \in [RecordNames -> Blocks]
    /\ record = given
    /\ returned = [n \in RecordNames |-> <<>>]

\* One call of calculateSanitizedChecksum(&record[n]): the digest comes back
\* and the block behind the pointer is left sanitized.
Call(n) ==
    /\ Len(returned[n]) < MaxCalls
    /\ returned' = [returned EXCEPT ![n] =
                       Append(@, [checksum |-> calculateSanitizedChecksum(record[n]),
                                  canonical |-> sanitizeBlock(record[n])])]
    /\ record' = [record EXCEPT ![n] = sanitizeBlock(@)]
    /\ UNCHANGED <<trackerVars, given>>

NextCalls == \E n \in RecordNames : Call(n)

SpecCalls == InitCalls /\ [][NextCalls]_vars

TypeOK ==
    /\ pc \in {"setup", "start", "cycle", "wait", "stopped", "panicked"}
    /\ interval \in Intervals
    /\ slackChannel \in {"", "solana"}
    /\ cpc \in {"idle", "fetchA", "fetchB", "compare", "write", "notify", "done"}
    /\ active \in 0..1
    /\ ticksConsumed \in 0..MaxTicks

\* ----------------------------------------------------------------- claims
\* A cycle is at its end, about to return to runTracker.
CycleAtEnd == pc = "cycle" /\ cpc = "done"

\* Both fetches succeeded and the comparison found the checksums unequal.
MismatchCycleAtEnd ==
    CycleAtEnd /\ compared /\ firehoseBlockSum # rpcFetcherBlockSum

\* Both fetches succeeded and the comparison found the checksums equal.
MatchCycleAtEnd ==
    CycleAtEnd /\ compared /\ firehoseBlockSum = rpcFetcherBlockSum

\* C1: cycles never overlap: at most one call of compareBlocks is in progress,
\* it is in progress exactly while runTracker is inside the call, and so a
\* cycle starts only when every earlier one has returned.
C1_NoOverlap ==
    /\ active \in {0, 1}
    /\ active = 1 <=> pc = "cycle"

\* A tick is waiting in ticker.C while a later cycle is still running.
C1_Witness == pc = "cycle" /\ tickPending /\ cyclesStarted >= 2 /\ cpc = "fetchB"

\* C2: whenever Source B has been invoked in a cycle, it was invoked once and
\* with the Slot of the block Source A returned in that same cycle.
C2_SameSequence ==
    (pc = "cycle" /\ rpcCalls # <<>>) =>
        /\ fetchedA # Nil
        /\ Len(rpcCalls) = 1
        /\ rpcCalls[1] = fetchedA[1].Slot

\* Source B was asked for slot 2 in a periodic cycle and answered with slot 1.
C2_Witness ==
    /\ pc = "cycle"
    /\ kind = "periodic"
    /\ rpcCalls = <<2>>
    /\ fetchedB # Nil
    /\ fetchedB[1].Slot = 1

\* C3: canonicalizing and fingerprinting a block leaves its diagnostic logs as
\* they were fetched, for both sources' blocks.
C3_InputNotMutated ==
    /\ firehoseBlock # Nil => LogsOf(firehoseBlock[1]) = LogsOf(fetchedA[1])
    /\ rpcFetcherBlock # Nil => LogsOf(rpcFetcherBlock[1]) = LogsOf(fetchedB[1])

\* C4: every artifact file written in a cycle holds the JSON of the block as
\* its source returned it, logs included: the first write Source A's block,
\* the second Source B's.
C4_ArtifactsHoldOriginals ==
    /\ Len(writes) >= 1 => writes[1].data = ProtoJson(fetchedA[1])
    /\ Len(writes) >= 2 => writes[2].data = ProtoJson(fetchedB[1])

\* The delivery attempt of a cycle names the slot, both checksums and the two
\* files written in the cycle.
PostReferencesCycle(post) ==
    /\ post.payload.slot = fetchedA[1].Slot
    /\ post.payload.firehoseSum = firehoseBlockSum[1]
    /\ post.payload.rpcSum = rpcFetcherBlockSum[1]
    /\ post.payload.firehoseFilePath = writes[1].name
    /\ post.payload.rpcFetcherFilePath = writes[2].name

TwoArtifactsOnePerSource ==
    /\ Len(writes) = 2
    /\ writes[1].name.prefix = "firehose_block_"
    /\ writes[2].name.prefix = "rpc_fetcher_block_"
    /\ {writes[1].name, writes[2].name} \subseteq files

\* C5 as claimed: a mismatch cycle writes exactly two files and makes exactly
\* one delivery attempt that references the slot, checksums and file paths.
C5_Original ==
    MismatchCycleAtEnd =>
        /\ TwoArtifactsOnePerSource
        /\ Len(posts) = 1
        /\ PostReferencesCycle(posts[1])

\* C5 amended: a mismatch cycle whose serialization and file writes succeed
\* writes exactly two files, one per source, and then makes exactly one
\* delivery attempt referencing slot, checksums and file paths when a webhook
\* URL is configured, and none when it is not; a mismatch cycle whose
\* serialization or write fails ends in error with at most the first file
\* written and no delivery attempt.
C5_MismatchReport ==
    MismatchCycleAtEnd =>
        IF cycErr = Nil
        THEN /\ TwoArtifactsOnePerSource
             /\ IF slackWebhookURL # ""
                THEN Len(posts) = 1 /\ PostReferencesCycle(posts[1])
                ELSE posts = <<>>
        ELSE /\ Len(writes) <= 1
             /\ posts = <<>>

\* A mismatch cycle ended with two files written and one delivery attempt.
C5_Witness ==
    /\ MismatchCycleAtEnd
    /\ cycErr = Nil
    /\ Len(writes) = 2
    /\ Len(posts) = 1

\* C6: a cycle whose two checksums are equal writes no file, attempts no
\* delivery and returns nil.
C6_MatchPath ==
    MatchCycleAtEnd =>
        /\ writes = <<>>
        /\ posts = <<>>
        /\ cycErr = Nil

\* A match cycle ended although the two sources' blocks differed in their logs.
C6_Witness ==
    /\ MatchCycleAtEnd
    /\ fetchedA # fetchedB
    /\ HasLogs(fetchedA[1])

\* C7: once Source B has reported the slot skipped, the cycle ends with the
\* skipped error, which does not end runTracker, and in it no checksums are
\* compared, no file is written and no delivery is attempted.
C7_SkippedSlot ==
    skippedB =>
        /\ cpc \in {"done", "idle"}
        /\ cycErr = Some(RpcFetcherError("block was skipped"))
        /\ ret \in {Nil, Some("nil")}
        /\ ~compared
        /\ rpcFetcherBlockSum = Nil
        /\ writes = <<>>
        /\ posts = <<>>

\* A cycle ended on a skipped slot and runTracker is back in its select.
C7_Witness == skippedB /\ pc = "wait" /\ cycErr # Nil

\* C8: a cycle that returns an error takes runTracker to its wait point, and
\* runTracker stops only from the wait point, by receiving the signal.
C8_ErrorsDoNotStop ==
    [][ /\ (CycleAtEnd /\ cycErr # Nil) => pc' \in {"cycle", "wait"}
        /\ (pc # "stopped" /\ pc' = "stopped") =>
              (pc = "wait" /\ sigPending /\ sigConsumed' /\ ret' = Some("nil")) ]_vars

\* A failed periodic cycle has returned and a tick is ready for the next one.
C8_Witness ==
    /\ pc = "wait"
    /\ cycErr # Nil
    /\ kind = "periodic"
    /\ tickPending

\* C9: a signal that is pending while a cycle runs stays pending and the
\* cycle goes on; runTracker stops only with no cycle in progress.
C9_StopOnlyBetweenCycles ==
    [][ /\ (pc = "cycle" /\ sigPending) =>
              (sigPending' /\ pc' \in {"cycle", "wait"} /\ cyclesStarted' = cyclesStarted)
        /\ (pc # "stopped" /\ pc' = "stopped") =>
              (active = 0 /\ cpc = "idle" /\ cpc' = "idle") ]_vars

\* The signal arrived before the files of a mismatch cycle were written, and
\* the cycle went on to its delivery attempt.
C9_Witness == pc = "cycle" /\ sigPending /\ cpc = "notify"

\* C10: no tick is consumed and no signal examined before the first cycle,
\* which is the first thing runTracker does once its ticker exists; from then
\* on the cycles started are the first one plus one per tick consumed, and
\* once the signal is consumed runTracker has stopped.
C10_OncePerTick ==
    /\ pc \in {"setup", "start", "panicked"} =>
          (cyclesStarted = 0 /\ ticksConsumed = 0 /\ ~sigConsumed)
    /\ pc \in {"cycle", "wait", "stopped"} => cyclesStarted = 1 + ticksConsumed
    /\ sigConsumed => pc = "stopped"
    /\ pc = "panicked" <=> (pc # "setup" /\ interval <= 0)

\* runTracker stopped after the initial cycle and two periodic ones.
C10_Witness == pc = "stopped" /\ ticksConsumed = 2 /\ cyclesStarted = 3

\* Two blocks agree in every field other than the transactions' log lines:
\* slot, parent slot, block hash, the number of transactions and, for each
\* transaction, whether its Meta is set.
SameExceptLogs(a, b) ==
    /\ a.Slot = b.Slot
    /\ a.ParentSlot = b.ParentSlot
    /\ a.Blockhash = b.Blockhash
    /\ Len(a.Transactions) = Len(b.Transactions)
    /\ \A i \in DOMAIN a.Transactions :
          (a.Transactions[i].Meta = Nil) <=> (b.Transactions[i].Meta = Nil)

\* The cycle took the mismatch branch of the comparison.
TookMismatchPath ==
    \E i \in DOMAIN logs :
        logs[i] = Log("warn", "Checksums are different - writing blocks to JSON files")

\* The cycle took the match branch of the comparison.
TookMatchPath ==
    \E i \in DOMAIN logs :
        logs[i] = Log("info", "Checksums are equal - skipping JSON file output")

\* C11: when the two fetched blocks differ in nothing but their log lines, the
\* two checksums are equal and, once compared, the cycle takes the match path.
C11_LogsDoNotMatter ==
    (pc = "cycle" /\ fetchedA # Nil /\ fetchedB # Nil
        /\ SameExceptLogs(fetchedA[1], fetchedB[1])) =>
        /\ firehoseBlockSum = rpcFetcherBlockSum
        /\ compared => (TookMatchPath /\ ~TookMismatchPath /\ cpc = "done"
                           /\ cycErr = Nil /\ writes = <<>>)

\* A compared cycle in which exactly one source's block carried a log line.
C11_Witness ==
    /\ pc = "cycle"
    /\ compared
    /\ fetchedA # Nil /\ fetchedB # Nil
    /\ SameExceptLogs(fetchedA[1], fetchedB[1])
    /\ HasLogs(fetchedA[1]) /\ ~HasLogs(fetchedB[1])

\* C12: when the two fetched blocks differ in a field other than the log
\* lines, the two checksums are unequal and, once compared, the cycle takes
\* the mismatch path.
C12_NonLogFieldsMatter ==
    (pc = "cycle" /\ fetchedA # Nil /\ fetchedB # Nil
        /\ ~SameExceptLogs(fetchedA[1], fetchedB[1])) =>
        /\ firehoseBlockSum # rpcFetcherBlockSum
        /\ compared => (TookMismatchPath /\ ~TookMatchPath)

\* A compared cycle whose blocks differ in parentSlot only.
C12_Witness ==
    /\ pc = "cycle"
    /\ compared
    /\ fetchedA # Nil /\ fetchedB # Nil
    /\ fetchedA[1].ParentSlot # fetchedB[1].ParentSlot
    /\ [fetchedA[1] EXCEPT !.ParentSlot = 0] = [fetchedB[1] EXCEPT !.ParentSlot = 0]

\* Both artifact files of the cycle are in the working directory.
BothArtifactsWritten ==
    /\ Len(writes) = 2
    /\ {writes[1].name, writes[2].name} \subseteq files

\* C13: when the delivery is about to be attempted both artifact files are
\* already written and nothing has been posted, and after a failed delivery
\* the cycle is at its end with a nil error and both files still written.
C13_DeliveryFailureIsNotFatal ==
    /\ (pc = "cycle" /\ cpc = "notify") => (BothArtifactsWritten /\ posts = <<>>)
    /\ (pc = "cycle" /\ posts # <<>> /\ ~posts[Len(posts)].delivered) =>
          (cpc = "done" /\ cycErr = Nil /\ BothArtifactsWritten)

\* The delivery of a mismatch cycle failed and the cycle is about to return.
C13_Witness ==
    /\ CycleAtEnd
    /\ Len(posts) = 1
    /\ ~posts[1].delivered
    /\ cycErr = Nil

\* C14: every artifact file written in a cycle carries in its name the slot
\* that was obtained from Source A and passed to Source B in that cycle.
C14_NamesCarryRequestedSequence ==
    (pc = "cycle" /\ writes # <<>>) =>
        \A i \in DOMAIN writes : writes[i].name.slot = rpcCalls[1]

\* Some entry of the cycle's log is an error entry with this message.
ErrorLogged(msg) == \E i \in DOMAIN logs : logs[i] = Log("error", msg)

\* runTracker's log entry for an error of the last cycle.
CycleErrorEntry ==
    Log("error", IF kind = "initial" THEN "Error in initial block comparison"
                 ELSE "Error in periodic block comparison")

\* C15: once a cycle has returned an error, whatever its cause, runTracker is
\* at its wait point only with that cycle's error entry as the last entry of
\* the log, and has stopped only with that entry followed by the shutdown
\* entry alone; and a failed delivery has its own error entry as soon as it
\* has failed.
C15_ErrorsAreLogged ==
    /\ (pc = "wait" /\ cycErr # Nil) =>
          /\ logs # <<>>
          /\ logs[Len(logs)] = CycleErrorEntry
    /\ (pc = "stopped" /\ cycErr # Nil) =>
          /\ Len(logs) >= 2
          /\ logs[Len(logs) - 1] = CycleErrorEntry
    /\ (pc = "cycle" /\ posts # <<>> /\ ~posts[Len(posts)].delivered) =>
          ErrorLogged("Failed to send Slack notification")

\* A periodic cycle failed writing its second file and has returned.
C15_Witness ==
    /\ pc = "wait"
    /\ kind = "periodic"
    /\ cycErr = Some(WriteError("failed to write second block to file"))

\* C16: a write never goes to a file that is already in the working
\* directory: no file is written a second time.
C16_WrittenOnce ==
    [][ \A i \in DOMAIN writes' :
            i > Len(writes) => writes'[i].name \notin files ]_vars

\* C17: the steps of a cycle come in the order fetch-A, fetch-B,
\* canonicalize and fingerprint both, compare, report: while Source B's fetch
\* has not returned, neither block has been canonicalized or fingerprinted.
C17_FingerprintAfterBothFetches ==
    (pc = "cycle" /\ cpc \in {"fetchA", "fetchB"}) =>
        (firehoseBlockSum = Nil /\ rpcFetcherBlockSum = Nil)

\* C18: a cycle whose Source A fetch failed is at its end or has returned,
\* with that error, and in it Source B was not invoked, nothing was compared,
\* no file was written and no delivery was attempted.
C18_SourceAFailure ==
    (cycErr # Nil /\ cycErr[1].context = "error fetching block from Firehose") =>
        /\ cpc \in {"done", "idle"}
        /\ cycErr[1].cause \in FirehoseOutcomes \ {"ok"}
        /\ rpcCalls = <<>>
        /\ ~skippedB
        /\ fetchedB = Nil
        /\ ~compared
        /\ writes = <<>>
        /\ posts = <<>>

\* A periodic cycle got an empty block from the stream and has returned.
C18_Witness ==
    /\ pc = "wait"
    /\ kind = "periodic"
    /\ cycErr = Some(FirehoseError("received empty block"))

\* C19: every call of calculateSanitizedChecksum on the same record gives the
\* same digest and leaves the same canonical record as the first call did,
\* however the calls on the other record are interleaved, and it never
\* touches the other record's non-log fields.
C19_RepeatedCallsAgree ==
    \A n \in RecordNames :
        /\ \A i \in DOMAIN returned[n] : returned[n][i] = returned[n][1]
        /\ returned[n] # <<>> => record[n] = returned[n][1].canonical
        /\ SameExceptLogs(record[n], given[n])

\* A record with log lines was fingerprinted twice, with a call on the other
\* record in between or around.
C19_Witness ==
    /\ Len(returned["x"]) = 2
    /\ Len(returned["y"]) = 1
    /\ HasLogs(given["x"])
    /\ given["x"] # given["y"]

\* runTracker has returned nil.
Stopped == pc = "stopped" /\ ret = Some("nil")

\* C20: with a stop signal delivered and every cycle terminating, runTracker
\* eventually reaches the stopped state and has returned nil.
C20_GracefulShutdown == sigPending ~> Stopped

\* runTracker has ended the way its interval decides: returned nil with a
\* positive interval, died in time.NewTicker with any other.
StoppedOrFailedAtStartup == IF interval > 0 THEN Stopped ELSE pc = "panicked"

\* What a delivered stop signal does lead to: the stopped state with nil
\* returned when the ticker could be created, the panic of time.NewTicker
\* when it could not.
SignalLeadsToStopOrStartupPanic == sigPending ~> StoppedOrFailedAtStartup

=============================================================================
